---- MODULE Spec2Model ----
(***************************************************************************)
(* Null-distribution construction and calibration of pyKuLGaP              *)
(* (kulgap/helpers.py, code/aux_functions.py, kulgap/plotting.py).         *)
(*                                                                         *)
(* One behaviour is one call of calculate_null_kl followed by calibration  *)
(* queries against the null distribution it returned.                      *)
(*                                                                         *)
(* Floating-point values are records [k, n, d]:                            *)
(*   k = "fin"  the exact rational n/d (d > 0, lowest terms)               *)
(*   k = "nan" | "inf" | "ninf"   the IEEE specials                        *)
(*   k = "none" Python's None, k = "raise" an exception leaving the call   *)
(* Arithmetic on them is numpy's: a division by zero yields inf or nan     *)
(* and never raises.                                                       *)
(***************************************************************************)
EXTENDS Integers, Sequences, FiniteSets, TLC

(***************************************************************************)
(* Bounds of the model                                                     *)
(***************************************************************************)
MaxConds == 5
MaxRows == 3
MaxObs == 2
MaxBothLen == 1

(***************************************************************************)
(* Floating-point values                                                   *)
(***************************************************************************)
RECURSIVE Gcd(_, _)
Gcd(a, b) == IF b = 0 THEN a ELSE Gcd(b, a % b)

AbsInt(a) == IF a < 0 THEN -a ELSE a

Fin(n, d) ==
    LET s == IF d < 0 THEN -1 ELSE 1
        g == Gcd(AbsInt(n), AbsInt(d))
    IN  [k |-> "fin", n |-> (s * n) \div g, d |-> (s * d) \div g]

NaN == [k |-> "nan", n |-> 0, d |-> 1]
PInf == [k |-> "inf", n |-> 0, d |-> 1]
NInf == [k |-> "ninf", n |-> 0, d |-> 1]
None == [k |-> "none", n |-> 0, d |-> 1]
Raise == [k |-> "raise", n |-> 0, d |-> 1]

IsFin(v) == v.k = "fin"
IsNaN(v) == v.k = "nan"
IsInf(v) == v.k \in {"inf", "ninf"}

\* sign of a non-NaN float: -1, 0 or 1
Sign(v) ==
    IF v.k = "inf" THEN 1
    ELSE IF v.k = "ninf" THEN -1
    ELSE IF v.n > 0 THEN 1 ELSE IF v.n < 0 THEN -1 ELSE 0

SignedInf(s) == IF s > 0 THEN PInf ELSE NInf

FAdd(a, b) ==
    IF IsNaN(a) \/ IsNaN(b) THEN NaN
    ELSE IF IsInf(a) /\ IsInf(b) THEN (IF a.k = b.k THEN a ELSE NaN)
    ELSE IF IsInf(a) THEN a
    ELSE IF IsInf(b) THEN b
    ELSE Fin(a.n * b.d + b.n * a.d, a.d * b.d)

FNeg(a) ==
    IF IsNaN(a) THEN NaN
    ELSE IF a.k = "inf" THEN NInf
    ELSE IF a.k = "ninf" THEN PInf
    ELSE Fin(-a.n, a.d)

FSub(a, b) == FAdd(a, FNeg(b))

FMul(a, b) ==
    IF IsNaN(a) \/ IsNaN(b) THEN NaN
    ELSE IF IsInf(a) \/ IsInf(b)
         THEN (IF Sign(a) = 0 \/ Sign(b) = 0 THEN NaN ELSE SignedInf(Sign(a) * Sign(b)))
    ELSE Fin(a.n * b.n, a.d * b.d)

\* numpy division: x/0 is inf, -inf or nan (a warning, not an exception)
FDiv(a, b) ==
    IF IsNaN(a) \/ IsNaN(b) THEN NaN
    ELSE IF IsInf(b) THEN (IF IsInf(a) THEN NaN ELSE Fin(0, 1))
    ELSE IF Sign(b) = 0 THEN (IF Sign(a) = 0 THEN NaN ELSE SignedInf(Sign(a)))
    ELSE IF IsInf(a) THEN SignedInf(Sign(a) * Sign(b))
    ELSE Fin(a.n * b.d, a.d * b.n)

FAbs(a) ==
    IF IsNaN(a) THEN NaN
    ELSE IF IsInf(a) THEN PInf
    ELSE Fin(AbsInt(a.n), a.d)

\* x >= y on floats: every comparison with NaN is False
Geq(x, y) ==
    IF IsNaN(x) \/ IsNaN(y) THEN FALSE
    ELSE IF x.k = "inf" \/ y.k = "ninf" THEN TRUE
    ELSE IF x.k = "ninf" \/ y.k = "inf" THEN FALSE
    ELSE x.n * y.d >= y.n * x.d

FInt(n) == Fin(n, 1)

\* str(v) as far as the code inspects it: only "nan" and "inf" are compared
str(v) ==
    IF v.k = "nan" THEN "nan"
    ELSE IF v.k = "inf" THEN "inf"
    ELSE IF v.k = "ninf" THEN "-inf"
    ELSE IF v.k = "none" THEN "None"
    ELSE "number"

(***************************************************************************)
(* TreatmentCondition objects: x is the time axis (x[0], x[1], ...),       *)
(* measurement_end an index into it, ncols is y.shape[1], and gp is the    *)
(* fitted predictive model (fitted = FALSE when gp is None).  The          *)
(* predictive mean and variance are step functions: constant on [t, t+1).  *)
(* CondA: a fitted condition with a growing mean.  CondD: a shorter series  *)
(* whose drug_start_day is its last time point.  CondZ: a fit with zero    *)
(* variance, drug_start_day at the last time point.  CondU: gp is None.    *)
(***************************************************************************)
Times == 0..3

CondA == [name |-> "A", x |-> <<0, 1, 2, 3>>, ncols |-> 4, measurement_end |-> 3,
          drug_start_day |-> 0, fitted |-> TRUE,
          mean |-> [t \in Times |-> t], var |-> [t \in Times |-> 1]]
CondD == [name |-> "D", x |-> <<0, 2, 3>>, ncols |-> 3, measurement_end |-> 2,
          drug_start_day |-> 3, fitted |-> TRUE,
          mean |-> [t \in Times |-> 0], var |-> [t \in Times |-> 2]]
CondZ == [name |-> "Z", x |-> <<0, 1, 2, 3>>, ncols |-> 4, measurement_end |-> 3,
          drug_start_day |-> 3, fitted |-> TRUE,
          mean |-> [t \in Times |-> 1], var |-> [t \in Times |-> 0]]
CondU == [name |-> "U", x |-> <<0, 1, 2, 3>>, ncols |-> 4, measurement_end |-> 3,
          drug_start_day |-> 0, fitted |-> FALSE,
          mean |-> [t \in Times |-> 0], var |-> [t \in Times |-> 1]]

Conditions == {CondA, CondD, CondZ, CondU}

\* seq[idx] with Python's 0-based index
At(seq, idx) == seq[idx + 1]

Min(a, b) == IF a < b THEN a ELSE b

\* gp.predict(np.asarray([[t]])) -> (mean, variance)
predict(cond, t) == <<FInt(cond.mean[t]), FInt(cond.var[t])>>

Sq(v) == FMul(v, v)

\* the second squared difference left unsquared
kl_integrand_unsquared(case, control, t) ==
    LET mean_control == predict(control, t)[1]
        var_control == predict(control, t)[2]
        mean_case == predict(case, t)[1]
        var_case == predict(case, t)[2]
    IN  FSub(FAdd(FDiv(FAdd(var_control, Sq(FSub(mean_control, mean_case))),
                       FMul(FInt(2), var_case)),
                  FDiv(FAdd(var_case, FSub(mean_case, mean_control)),
                       FMul(FInt(2), var_control))),
             FInt(1))

\* the constant term left out
kl_integrand_no_minus_one(case, control, t) ==
    LET mean_control == predict(control, t)[1]
        var_control == predict(control, t)[2]
        mean_case == predict(case, t)[1]
        var_case == predict(case, t)[2]
    IN  FAdd(FDiv(FAdd(var_control, Sq(FSub(mean_control, mean_case))),
                  FMul(FInt(2), var_case)),
             FDiv(FAdd(var_case, Sq(FSub(mean_case, mean_control))),
                  FMul(FInt(2), var_control)))

kl_integrand(case, control, t) ==
    LET mean_control == predict(control, t)[1]
        var_control == predict(control, t)[2]
        mean_case == predict(case, t)[1]
        var_case == predict(case, t)[2]
    IN  FSub(FAdd(FDiv(FAdd(var_control, Sq(FSub(mean_control, mean_case))),
                       FMul(FInt(2), var_case)),
                  FDiv(FAdd(var_case, Sq(FSub(mean_case, mean_control))),
                       FMul(FInt(2), var_control))),
             FInt(1))

RECURSIVE SumOver(_, _, _, _)
\* sum of the integrand over the unit steps lo, lo+1, ..., hi-1
SumOver(case, control, lo, hi) ==
    IF lo >= hi THEN FInt(0)
    ELSE FAdd(kl_integrand(case, control, lo), SumOver(case, control, lo + 1, hi))

(***************************************************************************)
(* quad(kl_integrand, a, b, limit=100)[0]: the set of values the           *)
(* quadrature can return.  For a finite integrand it is the integral of    *)
(* the step function (negated when b < a, zero when a = b).  A NaN         *)
(* integrand value gives NaN.  With an infinite integrand value the        *)
(* adaptive subdivision may return the infinity or NaN (inf - inf in its   *)
(* running totals): both are kept.                                         *)
(***************************************************************************)
quad(case, control, a, b) ==
    LET lo == Min(a, b)
        hi == IF a < b THEN b ELSE a
        pts == IF a = b THEN {a} ELSE lo..(hi - 1)
        vals == {kl_integrand(case, control, t) : t \in pts}
        total == SumOver(case, control, lo, hi)
    IN  IF \E v \in vals : IsNaN(v) THEN {NaN}
        ELSE IF \E v \in vals : IsInf(v)
             THEN (IF a = b THEN {NaN} ELSE {NaN, IF b < a THEN FNeg(total) ELSE total})
        ELSE {IF b < a THEN FNeg(total) ELSE total}

\* the end point taken from the control's axis also when the control is the
\* longer series
integration_window_control_axis(case, control) ==
    LET max_x_index == Min(case.measurement_end, control.measurement_end)
    IN  <<case.drug_start_day, At(control.x, max_x_index)>>

\* <<a, b>>: the limits handed to quad; b - a is the length divided by
integration_window(case, control) ==
    LET max_x_index == Min(case.measurement_end, control.measurement_end)
    IN  <<case.drug_start_day,
          IF control.ncols > case.ncols
          THEN At(case.x, max_x_index)
          ELSE At(control.x, max_x_index)>>

KlNorm == 11

\* the value without the division by 11
kl_divergence_unscaled(case, control) ==
    LET w == integration_window(case, control)
    IN  IF ~case.fitted \/ ~control.fitted THEN {Raise}
        ELSE {FAbs(FMul(FDiv(FInt(1), FInt(w[2] - w[1])), q)) :
                 q \in quad(case, control, w[1], w[2])}

\* the set of outcomes of kl_divergence(case, control); {Raise} when a gp is None
kl_divergence(case, control) ==
    LET w == integration_window(case, control)
    IN  IF ~case.fitted \/ ~control.fitted THEN {Raise}
        ELSE {FDiv(FAbs(FMul(FDiv(FInt(1), FInt(w[2] - w[1])), q)), FInt(KlNorm)) :
                 q \in quad(case, control, w[1], w[2])}

\* variants of the filter
retained_no_inf(new_kl) ==
    (new_kl.k # "none") /\ (str(new_kl) # "nan")

retained_no_nan(new_kl) ==
    (new_kl.k # "none") /\ (str(new_kl) # "inf")

retained_truthy(new_kl) ==
    (new_kl.k # "none") /\ (new_kl # Fin(0, 1)) /\ (str(new_kl) # "nan") /\ (str(new_kl) # "inf")

\* the filter of cross_kl_divergences: the value is appended iff this holds
retained(new_kl) ==
    (new_kl.k # "none") /\ (str(new_kl) # "nan") /\ (str(new_kl) # "inf")

\* variant: range(i + 1)
inner_range_inclusive(i) == 0..i

\* range(i) of the inner loop: the control indices paired with case index i
inner_range(i) == 0..(i - 1)

(***************************************************************************)
(* The persisted null-value store: a text file, one value per row, no      *)
(* header.  Rows are the decimal texts of the values.                      *)
(***************************************************************************)
FileVals == {Fin(0, 1), Fin(1, 2), Fin(1, 1), NaN, PInf}

FormatFloat(v) ==
    CASE v = Fin(0, 1) -> "0.0"
      [] v = Fin(1, 2) -> "0.5"
      [] v = Fin(1, 1) -> "1.0"
      [] v = NaN -> "nan"
      [] v = PInf -> "inf"

\* writes the list to the store: one row per value, in order, no header row
persist_null_values(l) == [r \in 1..Len(l) |-> FormatFloat(l[r])]

\* the float parser of read_csv
ParseFloat(text) ==
    CASE text = "0.0" -> Fin(0, 1)
      [] text = "0.5" -> Fin(1, 2)
      [] text = "1.0" -> Fin(1, 1)
      [] text = "nan" -> NaN
      [] text = "inf" -> PInf

NonBlank(text) == text # ""

\* variant: read_csv without header=None takes the first row as the header
read_csv_first_row_header(file) ==
    LET rows == SelectSeq(file, NonBlank)
    IN  IF rows = <<>> THEN <<Raise>>
        ELSE [r \in 1..(Len(rows) - 1) |-> ParseFloat(rows[r + 1])]

\* list(pd.read_csv(filename, header=None)[0]); <<Raise>> stands for
\* EmptyDataError (no row to parse)
read_csv(file) ==
    LET rows == SelectSeq(file, NonBlank)
    IN  IF rows = <<>> THEN <<Raise>>
        ELSE [r \in 1..Len(rows) |-> ParseFloat(rows[r])]

\* variant: only the empty list is rejected
cv_smoothing_empty_only(list_to_be_smoothed) ==
    IF Len(list_to_be_smoothed) = 0 THEN [k |-> "raise", data |-> <<>>]
    ELSE [k |-> "kde", data |-> list_to_be_smoothed]

\* KDEMultivariate(data=l, var_type="c", bw="cv_ml"): the constructor raises
\* ValueError unless the number of observations exceeds the number of
\* variables (one); otherwise it returns the fitted density
cv_smoothing(list_to_be_smoothed) ==
    IF Len(list_to_be_smoothed) <= 1 THEN [k |-> "raise", data |-> <<>>]
    ELSE [k |-> "kde", data |-> list_to_be_smoothed]

\* variant: only filename is inspected
null_kl_branch_filename_only(tcl_given, filename_given) ==
    IF ~filename_given THEN "list" ELSE "file"

\* which branch of calculate_null_kl the arguments select
null_kl_branch(tcl_given, filename_given) ==
    IF ~filename_given /\ tcl_given THEN "list"
    ELSE IF filename_given /\ ~tcl_given THEN "file"
    ELSE "error"

\* variant: x > y instead of x >= y
RECURSIVE p_value_strict(_, _)
p_value_strict(l1, l2) ==
    IF l1 = <<>> THEN <<>>
    ELSE LET y == Head(l1)
             gt(x) == Geq(x, y) /\ x # y
         IN  <<Fin(Len(SelectSeq(l2, gt)) + 1, Len(l2) + 1)>> \o p_value_strict(Tail(l1), l2)

\* variant: the comparison reversed, x <= y
RECURSIVE p_value_reversed(_, _)
p_value_reversed(l1, l2) ==
    IF l1 = <<>> THEN <<>>
    ELSE LET y == Head(l1)
             le(x) == Geq(y, x)
         IN  <<Fin(Len(SelectSeq(l2, le)) + 1, Len(l2) + 1)>> \o p_value_reversed(Tail(l1), l2)

\* variant: no add-one in the numerator
RECURSIVE p_value_no_add_one(_, _)
p_value_no_add_one(l1, l2) ==
    IF l1 = <<>> THEN <<>>
    ELSE LET y == Head(l1)
             ge(x) == Geq(x, y)
         IN  <<Fin(Len(SelectSeq(l2, ge)), Len(l2) + 1)>> \o p_value_no_add_one(Tail(l1), l2)

\* helpers.p_value / aux_functions.p_value: one p-value per element of l1
RECURSIVE p_value(_, _)
p_value(l1, l2) ==
    IF l1 = <<>> THEN <<>>
    ELSE LET y == Head(l1)
             ge(x) == Geq(x, y)
         IN  <<Fin(Len(SelectSeq(l2, ge)) + 1, Len(l2) + 1)>> \o p_value(Tail(l1), l2)

(***************************************************************************)
(* State                                                                   *)
(***************************************************************************)
VARIABLES
    treatment_condition_list, \* argument: [given, val]; given = FALSE is None
    filename,                 \* argument: [given, rows]; rows is the file's text
    persisted,                \* the list that was written to the store
    pc,                       \* "start", "cross", "read", "smooth", "done", "raised"
    i, j,                     \* loop indices of cross_kl_divergences
    kl_list,                  \* the list cross_kl_divergences builds
    evals,                    \* the kl_divergence calls made so far, in order
    null_kl_data,             \* local of calculate_null_kl
    result,                   \* the returned dict: [ready, list, smoothed]
    error,                    \* the exception that left calculate_null_kl
    file_reads,               \* number of read_csv calls
    fits,                     \* number of cv_smoothing calls
    cur_kl,                   \* cur_case.kl_divergence of the case being calibrated
    kl_p_value,               \* cur_case.kl_p_value
    l1, l2,                   \* arguments of a p_value(l1, l2) call
    pval_list,                \* what that call returned
    kl_p_cvsc,                \* cur_case.kl_p_cvsc
    kl_case, kl_control,      \* arguments of a kl_divergence(case, control) call
    kl_window,                \* its integration window <<start, end>>
    kl_value,                 \* what it returned
    kl_swapped,               \* what the call with the arguments swapped returned
    slots,                    \* per-pair result slots of the parallel aggregator
    collected,                \* the list its filter-and-collect pass assembled
    stats_row,                \* one row of stats_df
    p_val, p_val_kl,          \* arguments of get_classification_df
    tgi_thresh,
    responses,                \* the row of the returned DataFrame
    dictionary,               \* argument of dict_to_string
    dict_string,              \* the string it returned
    dict_back,                \* what dict_from_string made of that string
    nas_y,                    \* argument y of remove_extremal_nas
    nas_out,                  \* what it returned (first, last) and the y it was given
    all_patients,             \* argument of create_measurement_dict
    cmd_patient, cmd_category,\* its position in the two loops (0-based)
    stats_dict,               \* the dictionary it builds
    printed,                  \* the exceptions it printed
    aux_pval_list,            \* what aux_functions.p_value(l1, l2) returned
    plotting_pvals,           \* what plotting.p_value(l1[k], l2) returned, per k
    cmd_pvals,                \* the kl_p_value create_measurement_dict computes, per k
    experiment,               \* argument of get_all_treatment_conditions
    treatment_condition_dict, \* the dictionary it returned
    all_cats_dict             \* the dictionary get_all_cats returned for the same input

main_vars == <<treatment_condition_list, filename, persisted, pc, i, j, kl_list, evals,
               null_kl_data, result, error, file_reads, fits, cur_kl, kl_p_value,
               l1, l2, pval_list, kl_p_cvsc>>
main_vars_but_pc ==
    <<treatment_condition_list, filename, persisted, i, j, kl_list, evals,
      null_kl_data, result, error, file_reads, fits, cur_kl, kl_p_value,
      l1, l2, pval_list, kl_p_cvsc>>
kl_vars == <<kl_case, kl_control, kl_window, kl_value, kl_swapped>>
par_vars == <<slots, collected>>
cls_vars == <<stats_row, p_val, p_val_kl, tgi_thresh, responses>>
dict_vars == <<dictionary, dict_string, dict_back>>
nas_vars == <<nas_y, nas_out>>
cmd_vars == <<all_patients, cmd_patient, cmd_category, stats_dict, printed>>
agree_vars == <<aux_pval_list, plotting_pvals, cmd_pvals>>
tc_vars == <<experiment, treatment_condition_dict, all_cats_dict>>
late_vars == <<cmd_vars, agree_vars, tc_vars>>
aux_vars == <<kl_vars, par_vars, cls_vars, dict_vars, nas_vars, late_vars>>

vars == <<main_vars, aux_vars>>

SeqsUpTo(S, n) == UNION {[1..m -> S] : m \in 0..n}

NoDensity == [k |-> "none", data |-> <<>>]
NoResult == [ready |-> FALSE, list |-> <<>>, smoothed |-> NoDensity]

ObsVals == {Fin(0, 1), Fin(1, 2), Fin(1, 1)}

\* no survival probability computed
NoSurvival == [given |-> FALSE, data |-> <<>>, at |-> None]

\* the variables of the operations that are not running
KlIdle ==
    /\ kl_case = <<>>
    /\ kl_control = <<>>
    /\ kl_window = <<>>
    /\ kl_value = None
    /\ kl_swapped = None
ParIdle == slots = <<>> /\ collected = <<>>
ClsIdle ==
    /\ stats_row = <<>>
    /\ p_val = None
    /\ p_val_kl = None
    /\ tgi_thresh = None
    /\ responses = <<>>
DictIdle == dictionary = <<>> /\ dict_string = <<>> /\ dict_back = <<>>
NasIdle == nas_y = <<>> /\ nas_out = <<>>
CmdIdle ==
    /\ all_patients = <<>>
    /\ cmd_patient = 0
    /\ cmd_category = 0
    /\ stats_dict = <<>>
    /\ printed = <<>>
AgreeIdle == aux_pval_list = <<>> /\ plotting_pvals = <<>> /\ cmd_pvals = <<>>
TcIdle == experiment = <<>> /\ treatment_condition_dict = {} /\ all_cats_dict = {}
LateIdle == CmdIdle /\ AgreeIdle /\ TcIdle

MainIdle ==
    /\ treatment_condition_list = [given |-> FALSE, val |-> <<>>]
    /\ filename = [given |-> FALSE, rows |-> <<>>]
    /\ persisted = <<>>
    /\ i = 0
    /\ j = 0
    /\ kl_list = <<>>
    /\ evals = <<>>
    /\ null_kl_data = <<>>
    /\ result = NoResult
    /\ error = "none"
    /\ file_reads = 0
    /\ fits = 0
    /\ cur_kl = None
    /\ kl_p_value = None
    /\ kl_p_cvsc = NoSurvival
    /\ l1 = <<>>
    /\ l2 = <<>>
    /\ pval_list = <<>>

Init ==
    /\ \/ /\ \E tcl \in SeqsUpTo(Conditions, MaxConds) :
                treatment_condition_list = [given |-> TRUE, val |-> tcl]
          /\ filename = [given |-> FALSE, rows |-> <<>>]
          /\ persisted = <<>>
       \/ /\ treatment_condition_list = [given |-> FALSE, val |-> <<>>]
          /\ \E l \in SeqsUpTo(FileVals, MaxRows) :
                /\ persisted = l
                /\ filename = [given |-> TRUE, rows |-> persist_null_values(l)]
       \/ /\ \E tcl \in SeqsUpTo(Conditions, MaxBothLen) :
                treatment_condition_list = [given |-> TRUE, val |-> tcl]
          /\ \E l \in SeqsUpTo(FileVals, MaxBothLen) :
                /\ persisted = l
                /\ filename = [given |-> TRUE, rows |-> persist_null_values(l)]
       \/ /\ treatment_condition_list = [given |-> FALSE, val |-> <<>>]
          /\ filename = [given |-> FALSE, rows |-> <<>>]
          /\ persisted = <<>>
    /\ pc = "start"
    /\ i = 0
    /\ j = 0
    /\ kl_list = <<>>
    /\ evals = <<>>
    /\ null_kl_data = <<>>
    /\ result = NoResult
    /\ error = "none"
    /\ file_reads = 0
    /\ fits = 0
    /\ cur_kl = None
    /\ kl_p_value = None
    /\ kl_p_cvsc = NoSurvival
    /\ l1 = <<>>
    /\ l2 = <<>>
    /\ pval_list = <<>>
    /\ KlIdle /\ ParIdle /\ ClsIdle /\ DictIdle /\ NasIdle /\ LateIdle

cl == Len(treatment_condition_list.val)

\* calculate_null_kl, lines 112-117: the argument check
calculate_null_kl_enter ==
    /\ pc = "start"
    /\ LET b == null_kl_branch(treatment_condition_list.given, filename.given)
       IN  IF b = "list" THEN pc' = "cross" /\ error' = error
           ELSE IF b = "file" THEN pc' = "read" /\ error' = error
           ELSE pc' = "raised" /\ error' = "ValueError_args"
    /\ UNCHANGED <<treatment_condition_list, filename, persisted, i, j, kl_list, evals,
                   null_kl_data, result, file_reads, fits, cur_kl, kl_p_value, l1, l2, pval_list>>
    /\ UNCHANGED <<kl_p_cvsc, aux_vars>>

\* one pass of the inner loop body of cross_kl_divergences
cross_kl_inner ==
    /\ pc = "cross"
    /\ i < cl
    /\ j \in inner_range(i)
    /\ \E new_kl \in kl_divergence(At(treatment_condition_list.val, i),
                                    At(treatment_condition_list.val, j)) :
          /\ evals' = Append(evals, [case |-> i, control |-> j, value |-> new_kl])
          /\ IF new_kl.k = "raise"
             THEN /\ pc' = "raised"
                  /\ error' = "AttributeError"
                  /\ UNCHANGED <<kl_list, j>>
             ELSE /\ kl_list' = IF retained(new_kl) THEN Append(kl_list, new_kl) ELSE kl_list
                  /\ j' = j + 1
                  /\ UNCHANGED <<pc, error>>
    /\ UNCHANGED <<treatment_condition_list, filename, persisted, i, null_kl_data, result,
                   file_reads, fits, cur_kl, kl_p_value, l1, l2, pval_list>>
    /\ UNCHANGED <<kl_p_cvsc, aux_vars>>

\* the inner loop is exhausted: next pass of the outer loop
cross_kl_outer ==
    /\ pc = "cross"
    /\ i < cl
    /\ j \notin inner_range(i)
    /\ i' = i + 1
    /\ j' = 0
    /\ UNCHANGED <<treatment_condition_list, filename, persisted, pc, kl_list, evals,
                   null_kl_data, result, error, file_reads, fits, cur_kl, kl_p_value,
          l1, l2, pval_list>>
    /\ UNCHANGED <<kl_p_cvsc, aux_vars>>

\* cross_kl_divergences returns kl_list to calculate_null_kl
cross_kl_return ==
    /\ pc = "cross"
    /\ i >= cl
    /\ null_kl_data' = kl_list
    /\ pc' = "smooth"
    /\ UNCHANGED <<treatment_condition_list, filename, persisted, i, j, kl_list, evals,
                   result, error, file_reads, fits, cur_kl, kl_p_value, l1, l2, pval_list>>
    /\ UNCHANGED <<kl_p_cvsc, aux_vars>>

\* calculate_null_kl, line 115
read_null_file ==
    /\ pc = "read"
    /\ file_reads' = file_reads + 1
    /\ LET data == read_csv(filename.rows)
       IN  IF data = <<Raise>>
           THEN pc' = "raised" /\ error' = "EmptyDataError" /\ UNCHANGED null_kl_data
           ELSE pc' = "smooth" /\ null_kl_data' = data /\ UNCHANGED error
    /\ UNCHANGED <<treatment_condition_list, filename, persisted, i, j, kl_list, evals,
                   result, fits, cur_kl, kl_p_value, l1, l2, pval_list>>
    /\ UNCHANGED <<kl_p_cvsc, aux_vars>>

\* calculate_null_kl, lines 118-119
smooth_and_return ==
    /\ pc = "smooth"
    /\ fits' = fits + 1
    /\ LET smoothed_null_kl == cv_smoothing(null_kl_data)
       IN  IF smoothed_null_kl.k = "raise"
           THEN pc' = "raised" /\ error' = "ValueError_fit" /\ UNCHANGED result
           ELSE /\ pc' = "done"
                /\ result' = [ready |-> TRUE, list |-> null_kl_data,
                              smoothed |-> smoothed_null_kl]
                /\ UNCHANGED error
    /\ UNCHANGED <<treatment_condition_list, filename, persisted, i, j, kl_list, evals,
                   null_kl_data, file_reads, cur_kl, kl_p_value, l1, l2, pval_list>>
    /\ UNCHANGED <<kl_p_cvsc, aux_vars>>

\* the observed value ends up in the list it was compared with
list_after_query_appended(list, kl) ==
    IF kl.k # "none" THEN Append(list, kl) ELSE list

\* kl_control_vs_control["list"] after lines 64-70: the comprehension reads
\* the list and builds a new one, cdf reads the fitted density
list_after_query(list, kl) == list

\* create_measurement_dict, lines 64-70: the empirical p-value of one case
\* against the null list and its survival probability under the smoothed
\* density, computed only when its kl_divergence is not None
calibrate_case ==
    /\ pc = "done"
    /\ \E kl \in ObsVals \cup {None} :
          /\ cur_kl' = kl
          /\ kl_p_value' =
                IF kl.k # "none"
                THEN LET ge(x) == Geq(x, kl)
                     IN  Fin(Len(SelectSeq(result.list, ge)) + 1, Len(result.list) + 1)
                ELSE None
          /\ kl_p_cvsc' =
                IF kl.k # "none"
                THEN [given |-> TRUE, data |-> result.smoothed.data, at |-> kl]
                ELSE NoSurvival
          /\ result' = [result EXCEPT !.list = list_after_query(result.list, kl)]
    /\ UNCHANGED <<treatment_condition_list, filename, persisted, pc, i, j, kl_list, evals,
                   null_kl_data, error, file_reads, fits, l1, l2, pval_list>>
    /\ UNCHANGED aux_vars

Next ==
    \/ calculate_null_kl_enter
    \/ cross_kl_inner
    \/ cross_kl_outer
    \/ cross_kl_return
    \/ read_null_file
    \/ smooth_and_return
    \/ calibrate_case

Spec == Init /\ [][Next]_vars

(***************************************************************************)
(* helpers.p_value as a function of its two arguments                      *)
(***************************************************************************)
InitPV ==
    /\ treatment_condition_list = [given |-> FALSE, val |-> <<>>]
    /\ filename = [given |-> FALSE, rows |-> <<>>]
    /\ persisted = <<>>
    /\ pc = "p_value"
    /\ i = 0
    /\ j = 0
    /\ kl_list = <<>>
    /\ evals = <<>>
    /\ null_kl_data = <<>>
    /\ result = NoResult
    /\ error = "none"
    /\ file_reads = 0
    /\ fits = 0
    /\ cur_kl = None
    /\ kl_p_value = None
    /\ kl_p_cvsc = NoSurvival
    /\ KlIdle /\ ParIdle /\ ClsIdle /\ DictIdle /\ NasIdle /\ LateIdle
    /\ l1 \in SeqsUpTo(ObsVals, MaxObs)
    /\ l2 \in SeqsUpTo(FileVals, MaxRows)
    /\ pval_list = <<>>

helpers_p_value ==
    /\ pc = "p_value"
    /\ pval_list' = p_value(l1, l2)
    /\ pc' = "p_value_returned"
    /\ UNCHANGED <<treatment_condition_list, filename, persisted, i, j, kl_list, evals,
                   null_kl_data, result, error, file_reads, fits, cur_kl, kl_p_value, l1, l2>>
    /\ UNCHANGED <<kl_p_cvsc, aux_vars>>

NextPV == helpers_p_value

SpecPV == InitPV /\ [][NextPV]_vars

(***************************************************************************)
(* kl_divergence as a function of its two arguments.  The conditions span  *)
(* three time axes, full and truncated measurement ends, drug start days at *)
(* the start, inside and at the end of the series, and five predictive     *)
(* models (one with zero variance).                                        *)
(***************************************************************************)
Axes == {<<0, 1, 2, 3>>, <<0, 2, 3>>, <<0, 1, 3>>}

Models ==
    {[mean |-> [t \in Times |-> t], var |-> [t \in Times |-> 1]],
     [mean |-> [t \in Times |-> 0], var |-> [t \in Times |-> 1]],
     [mean |-> [t \in Times |-> 0], var |-> [t \in Times |-> 2]],
     [mean |-> [t \in Times |-> t], var |-> [t \in Times |-> t + 1]],
     [mean |-> [t \in Times |-> 1], var |-> [t \in Times |-> 0]]}

KLConditions ==
    {[name |-> "K", x |-> ax, ncols |-> Len(ax), measurement_end |-> e,
      drug_start_day |-> d, fitted |-> TRUE, mean |-> m.mean, var |-> m.var] :
        ax \in Axes, e \in {1, 2}, d \in {0, 1, 3}, m \in Models}
    \cup Conditions

InitKL ==
    /\ MainIdle
    /\ pc = "kl_call"
    /\ kl_case \in KLConditions
    /\ kl_control \in KLConditions
    /\ kl_window = <<>>
    /\ kl_value = None
    /\ kl_swapped = None
    /\ ParIdle /\ ClsIdle /\ DictIdle /\ NasIdle /\ LateIdle

kl_divergence_call ==
    /\ pc = "kl_call"
    /\ pc' = "kl_returned"
    /\ kl_window' = integration_window(kl_case, kl_control)
    /\ kl_value' \in kl_divergence(kl_case, kl_control)
    /\ UNCHANGED <<treatment_condition_list, filename, persisted, i, j, kl_list, evals,
                   null_kl_data, result, error, file_reads, fits, cur_kl, kl_p_value,
                   l1, l2, pval_list, kl_p_cvsc>>
    /\ UNCHANGED <<kl_case, kl_control, kl_swapped, par_vars, cls_vars, dict_vars, nas_vars>>
    /\ UNCHANGED late_vars

\* the same two conditions with the roles exchanged
kl_divergence_swapped_call ==
    /\ pc = "kl_returned"
    /\ pc' = "kl_both_returned"
    /\ kl_swapped' \in kl_divergence(kl_control, kl_case)
    /\ UNCHANGED <<treatment_condition_list, filename, persisted, i, j, kl_list, evals,
                   null_kl_data, result, error, file_reads, fits, cur_kl, kl_p_value,
                   l1, l2, pval_list, kl_p_cvsc>>
    /\ UNCHANGED <<kl_case, kl_control, kl_window, kl_value,
                   par_vars, cls_vars, dict_vars, nas_vars>>
    /\ UNCHANGED late_vars

NextKL ==
    \/ kl_divergence_call
    \/ kl_divergence_swapped_call

SpecKL == InitKL /\ [][NextKL]_vars

(***************************************************************************)
(* The parallel form of the pairwise aggregator allowed by the concurrency *)
(* model: one worker per pair writes its result to the slot of that pair,  *)
(* in any order, and one sequential pass then filters and collects the     *)
(* slots.  The sequential cross_kl_divergences runs first on the same list *)
(* and leaves its result in kl_list for comparison.                        *)
(***************************************************************************)
MaxParConds == 3

Empty == [k |-> "empty", n |-> 0, d |-> 1]

\* the n*(n-1)/2 pairs <<case index, control index>> handed to the workers
worker_pairs(n) == {p \in (0..(n - 1)) \X (0..(n - 1)) : p[2] < p[1]}

RECURSIVE slot_order(_)
\* the slots in enumeration order: <<1,0>>, <<2,0>>, <<2,1>>, ...
slot_order(n) ==
    IF n <= 1 THEN <<>>
    ELSE slot_order(n - 1) \o [k \in 1..(n - 1) |-> <<n - 1, k - 1>>]

Reverse(seq) == [k \in 1..Len(seq) |-> seq[Len(seq) + 1 - k]]

RECURSIVE filter_and_collect(_, _)
\* the sequential pass over the slots in the given order, with the filter of
\* cross_kl_divergences
filter_and_collect(order, filled) ==
    IF order = <<>> THEN <<>>
    ELSE LET new_kl == filled[Head(order)]
             rest == filter_and_collect(Tail(order), filled)
         IN  IF retained(new_kl) THEN <<new_kl>> \o rest ELSE rest

InitPar ==
    /\ \E tcl \in SeqsUpTo(Conditions, MaxParConds) :
          /\ treatment_condition_list = [given |-> TRUE, val |-> tcl]
          /\ slots = [p \in worker_pairs(Len(tcl)) |-> Empty]
    /\ filename = [given |-> FALSE, rows |-> <<>>]
    /\ persisted = <<>>
    /\ pc = "cross"
    /\ i = 0
    /\ j = 0
    /\ kl_list = <<>>
    /\ evals = <<>>
    /\ null_kl_data = <<>>
    /\ result = NoResult
    /\ error = "none"
    /\ file_reads = 0
    /\ fits = 0
    /\ cur_kl = None
    /\ kl_p_value = None
    /\ kl_p_cvsc = NoSurvival
    /\ l1 = <<>>
    /\ l2 = <<>>
    /\ pval_list = <<>>
    /\ collected = <<>>
    /\ KlIdle /\ ClsIdle /\ DictIdle /\ NasIdle /\ LateIdle

\* one worker evaluates its pair and writes the result to its own slot
worker_evaluate ==
    /\ pc = "smooth"
    /\ \E p \in DOMAIN slots :
          /\ slots[p] = Empty
          /\ \E new_kl \in kl_divergence(At(treatment_condition_list.val, p[1]),
                                          At(treatment_condition_list.val, p[2])) :
                slots' = [slots EXCEPT ![p] = new_kl]
    /\ UNCHANGED <<main_vars, collected, kl_vars, cls_vars, dict_vars, nas_vars>>
    /\ UNCHANGED late_vars

\* every slot is written: the sequential pass assembles the retained values,
\* visiting the slots from either end
collect_slots ==
    /\ pc = "smooth"
    /\ \A p \in DOMAIN slots : slots[p] # Empty
    /\ \E backwards \in BOOLEAN :
          LET order == IF backwards THEN Reverse(slot_order(cl)) ELSE slot_order(cl)
          IN  collected' = filter_and_collect(order, slots)
    /\ pc' = "collected"
    /\ UNCHANGED <<treatment_condition_list, filename, persisted, i, j, kl_list, evals,
                   null_kl_data, result, error, file_reads, fits, cur_kl, kl_p_value,
                   l1, l2, pval_list, kl_p_cvsc>>
    /\ UNCHANGED <<slots, kl_vars, cls_vars, dict_vars, nas_vars>>
    /\ UNCHANGED late_vars

NextPar ==
    \/ cross_kl_inner
    \/ cross_kl_outer
    \/ cross_kl_return
    \/ worker_evaluate
    \/ collect_slots

SpecPar == InitPar /\ [][NextPar]_vars

(***************************************************************************)
(* get_classification_df on one row of stats_df.  The Mann-Whitney test of *)
(* a row is given by its outcome: NaN when one of the two strings is       *)
(* "nan", Raise when mannwhitneyu raises ValueError, else its p-value.     *)
(***************************************************************************)
\* v1 < v2 on floats: every comparison with NaN is False
Less(v1, v2) == ~IsNaN(v1) /\ ~IsNaN(v2) /\ ~Geq(v1, v2)

bts(boolean, yv, nv) == IF boolean THEN yv ELSE nv

tsmaller(v1, v2, yv, nv, na) ==
    IF (v1.k # "none") /\ (v2.k # "none") THEN bts(Less(v1, v2), yv, nv) ELSE na

mw_letter(test, pval, yv, nv, na) ==
    IF test.k = "raise" THEN na ELSE bts(Less(test, pval), yv, nv)

mw_letter_from_strings(test, pval, yv, nv, na) ==
    IF test.k = "nan" THEN na ELSE mw_letter(test, pval, yv, nv, na)

\* line 493: the 'kulgap' column
kulgap_call(row, pv, pv_kl) == tsmaller(row.kl_p_cvsc, pv, 1, -1, 0)

PValues == {None, Fin(1, 100), Fin(3, 100), Fin(1, 10)}
Thresholds == {Fin(1, 100), Fin(5, 100)}
Fractions == {None, Fin(2, 5), Fin(1, 2), Fin(7, 10)}
TestOutcomes == {NaN, Raise, Fin(3, 100)}

StatsRows ==
    [kl_p_cvsc : PValues, perc_mPD : Fractions, angle_test : TestOutcomes,
     auc_test : TestOutcomes, tgi : Fractions]

InitCls ==
    /\ MainIdle
    /\ pc = "classify"
    /\ stats_row \in StatsRows
    /\ p_val \in Thresholds
    /\ p_val_kl \in Thresholds
    /\ tgi_thresh = Fin(6, 10)
    /\ responses = <<>>
    /\ KlIdle /\ ParIdle /\ DictIdle /\ NasIdle /\ LateIdle

get_classification_df ==
    /\ pc = "classify"
    /\ pc' = "classified"
    /\ responses' =
          [kulgap |-> kulgap_call(stats_row, p_val, p_val_kl),
           mRECIST_Novartis |-> tsmaller(stats_row.perc_mPD, Fin(1, 2), 1, -1, 0),
           Angle |-> mw_letter_from_strings(stats_row.angle_test, p_val, 1, -1, 0),
           AUC |-> mw_letter_from_strings(stats_row.auc_test, p_val, 1, -1, 0),
           TGI |-> tsmaller(tgi_thresh, stats_row.tgi, 1, -1, 0)]
    /\ UNCHANGED <<main_vars_but_pc, stats_row, p_val, p_val_kl, tgi_thresh,
                   kl_vars, par_vars, dict_vars, nas_vars>>
    /\ UNCHANGED late_vars

NextCls == get_classification_df

SpecCls == InitCls /\ [][NextCls]_vars

(***************************************************************************)
(* dict_to_string and dict_from_string.  A string is a sequence of         *)
(* characters, a dictionary a sequence of <<key, value>> entries with      *)
(* distinct keys, in insertion order.                                      *)
(***************************************************************************)
MaxEntries == 2

Keys == {<<>>, <<"a">>, <<"b">>, <<"a", "_", "b">>, <<"a", ":">>, <<"[", "a", "]">>}
Values == {Fin(1, 2), Fin(1, 1)}

\* str(value) of a float
str_float(v) == IF v = Fin(1, 2) THEN <<"0", ".", "5">> ELSE <<"1", ".", "0">>

\* float(text): ValueError on a text that is no number
float(text) ==
    IF text = <<"0", ".", "5">> THEN Fin(1, 2)
    ELSE IF text = <<"1", ".", "0">> THEN Fin(1, 1)
    ELSE Raise

RECURSIVE join(_, _)
\* sep.join(parts)
join(sep, parts) ==
    IF parts = <<>> THEN <<>>
    ELSE IF Len(parts) = 1 THEN parts[1]
    ELSE parts[1] \o <<sep>> \o join(sep, Tail(parts))

\* s.replace(c, "")
replace(text, c) == LET keep(ch) == ch # c IN SelectSeq(text, keep)

RECURSIVE split(_, _)
\* s.split(sep): always at least one part
split(text, sep) ==
    IF \A k \in 1..Len(text) : text[k] # sep THEN <<text>>
    ELSE LET at == CHOOSE k \in 1..Len(text) :
                      text[k] = sep /\ \A m \in 1..(k - 1) : text[m] # sep
         IN  <<SubSeq(text, 1, at - 1)>> \o split(SubSeq(text, at + 1, Len(text)), sep)

dict_to_string(dict) ==
    join("_", [k \in 1..Len(dict) |-> dict[k][1] \o <<":">> \o str_float(dict[k][2])])

\* the mapping a sequence of entries builds: a later entry replaces an
\* earlier one with the same key
mapping(entries) ==
    {entries[k] : k \in {m \in 1..Len(entries) :
                            \A later \in (m + 1)..Len(entries) :
                                entries[later][1] # entries[m][1]}}

dict_from_string(text) ==
    LET l == split(replace(replace(text, "["), "]"), "_")
        parts(k) == split(l[k], ":")
        failed(k) == Len(parts(k)) < 2 \/ float(parts(k)[2]) = Raise
    IN  IF \E k \in 1..Len(l) : failed(k)
        THEN LET first == CHOOSE k \in 1..Len(l) :
                              failed(k) /\ \A m \in 1..(k - 1) : ~failed(m)
             IN  [k |-> "raise",
                  error |-> IF Len(parts(first)) < 2 THEN "IndexError" ELSE "ValueError",
                  val |-> {}]
        ELSE [k |-> "dict", error |-> "none",
              val |-> mapping([k \in 1..Len(l) |-> <<parts(k)[1], float(parts(k)[2])>>])]

Entries == Keys \X Values

InitDict ==
    /\ MainIdle
    /\ pc = "dict_to_string"
    /\ dictionary \in {dd \in SeqsUpTo(Entries, MaxEntries) :
                           \A a \in 1..Len(dd) : \A b \in 1..Len(dd) :
                               a # b => dd[a][1] # dd[b][1]}
    /\ dict_string = <<>>
    /\ dict_back = <<>>
    /\ KlIdle /\ ParIdle /\ ClsIdle /\ NasIdle /\ LateIdle

dict_to_string_call ==
    /\ pc = "dict_to_string"
    /\ pc' = "dict_from_string"
    /\ dict_string' = dict_to_string(dictionary)
    /\ UNCHANGED <<main_vars_but_pc, dictionary, dict_back,
                   kl_vars, par_vars, cls_vars, nas_vars>>
    /\ UNCHANGED late_vars

dict_from_string_call ==
    /\ pc = "dict_from_string"
    /\ dict_back' = dict_from_string(dict_string)
    /\ pc' = IF dict_back'.k = "raise" THEN "raised" ELSE "dict_returned"
    /\ UNCHANGED <<main_vars_but_pc, dictionary, dict_string,
                   kl_vars, par_vars, cls_vars, nas_vars>>
    /\ UNCHANGED late_vars

NextDict ==
    \/ dict_to_string_call
    \/ dict_from_string_call

SpecDict == InitDict /\ [][NextDict]_vars

(***************************************************************************)
(* remove_extremal_nas(y, replacement_value): y is a 2-D array, a sequence *)
(* of rows of equal length; a cell is NaN or a measurement.  The array is  *)
(* modified in place.                                                      *)
(***************************************************************************)
MaxNasRows == 2
MaxNasCols == 3

Cells == {NaN, Fin(1, 1)}
replacement_value == Fin(0, 1)

Arrays ==
    UNION {[1..r -> [1..c -> Cells]] : r \in 0..MaxNasRows, c \in 1..MaxNasCols}

\* np.where(~np.isnan(y_slice))[0], as 0-based indices
ind(y_slice) == {k \in 0..(Len(y_slice) - 1) : ~IsNaN(At(y_slice, k))}

max_of(S) == CHOOSE m \in S : \A k \in S : k <= m
min_of(S) == CHOOSE m \in S : \A k \in S : m <= k

\* y[j, :first] = replacement_value; y[j, last + 1:] = replacement_value
replace_extremal(y_slice, fst, lst) ==
    [k \in 1..Len(y_slice) |->
        IF (k - 1 < fst) \/ (k - 1 > lst) THEN replacement_value ELSE y_slice[k]]

\* the rows the loop reached before it stopped: all of them, or those up to
\* the first row without a measurement (ind[0] raises IndexError there)
rows_done(arr) ==
    IF \E r \in 1..Len(arr) : ind(arr[r]) = {}
    THEN min_of({r \in 1..Len(arr) : ind(arr[r]) = {}}) - 1
    ELSE Len(arr)

y_after(arr) ==
    [r \in 1..Len(arr) |->
        IF r <= rows_done(arr)
        THEN replace_extremal(arr[r], min_of(ind(arr[r])), max_of(ind(arr[r])))
        ELSE arr[r]]

remove_extremal_nas(arr) ==
    IF rows_done(arr) < Len(arr)
    THEN [k |-> "raise", error |-> "IndexError", first |-> 0, last |-> 0]
    ELSE IF Len(arr) = 0
    THEN [k |-> "raise", error |-> "ValueError", first |-> 0, last |-> 0]
    ELSE [k |-> "ok", error |-> "none",
          first |-> max_of({min_of(ind(arr[r])) : r \in 1..Len(arr)}),
          last |-> min_of({max_of(ind(arr[r])) : r \in 1..Len(arr)})]

InitNas ==
    /\ MainIdle
    /\ pc = "remove_extremal_nas"
    /\ nas_y \in Arrays
    /\ nas_out = <<>>
    /\ KlIdle /\ ParIdle /\ ClsIdle /\ DictIdle /\ LateIdle

remove_extremal_nas_call ==
    /\ pc = "remove_extremal_nas"
    /\ nas_y' = y_after(nas_y)
    /\ nas_out' = remove_extremal_nas(nas_y) @@ [given |-> nas_y]
    /\ pc' = IF remove_extremal_nas(nas_y).k = "raise" THEN "raised" ELSE "nas_returned"
    /\ UNCHANGED <<main_vars_but_pc, kl_vars, par_vars, cls_vars, dict_vars>>
    /\ UNCHANGED late_vars

NextNas == remove_extremal_nas_call

SpecNas == InitNas /\ [][NextNas]_vars

(***************************************************************************)
(* create_measurement_dict(all_patients, kl_null_filename).  Two patients, *)
(* each with a Control and its treated categories.  A treated category is  *)
(* described by whether calculate_mrecist / enumerate_mrecist raises for   *)
(* it and by its kl_divergence; kl_p_value and kl_p_cvsc are attributes of *)
(* the case object, None when it is constructed.                           *)
(***************************************************************************)
MaxCmdCases == 3

Text == [k |-> "str", n |-> 0, d |-> 1]

\* the treated categories: raises is what the mRECIST calculation does
CaseKinds ==
    {[raises |-> TRUE, kl_divergence |-> Fin(1, 2)],
     [raises |-> FALSE, kl_divergence |-> None],
     [raises |-> FALSE, kl_divergence |-> Fin(1, 2)],
     [raises |-> FALSE, kl_divergence |-> Fin(1, 1)]}

NullFiles == {<<Fin(0, 1), Fin(1, 2), Fin(1, 1)>>, <<Fin(1, 2), PInf>>, <<Fin(1, 2)>>}

CategoryNames == <<"A", "B", "C", "D">>

new_case(kind, name) ==
    [category |-> name, raises |-> kind.raises, kl_divergence |-> kind.kl_divergence,
     tgi |-> Fin(1, 2), kl_p_value |-> None, kl_p_cvsc |-> NoSurvival]

control_category ==
    [category |-> "Control", raises |-> FALSE, kl_divergence |-> None,
     tgi |-> None, kl_p_value |-> None, kl_p_cvsc |-> NoSurvival]

new_patient(id, kinds) ==
    [phlc_id |-> id,
     categories |-> <<control_category>> \o
                    [c \in 1..Len(kinds) |-> new_case(kinds[c], CategoryNames[c])]]

\* 'Control' not in category
is_treated(category) == category # "Control"

\* the p-value with the comparison strict
kl_p_value_inline_strict(list, kl) ==
    LET gt(x) == Geq(x, kl) /\ x # kl
    IN  Fin(Len(SelectSeq(list, gt)) + 1, Len(list) + 1)

\* lines 65-67: the empirical p-value computed in place
kl_p_value_inline(list, kl) ==
    LET ge(x) == Geq(x, kl)
    IN  Fin(Len(SelectSeq(list, ge)) + 1, Len(list) + 1)

\* lines 69-70: 1 - smoothed.cdf([kl])
kl_p_cvsc_inline(smoothed, kl) == [given |-> TRUE, data |-> smoothed.data, at |-> kl]

\* the entry created with the divergence already filled in
initial_entry_with_kl(cur_case) ==
    [drug |-> cur_case.category, mRECIST |-> None, perc_mPD |-> None,
     kl |-> cur_case.kl_divergence,
     kl_p_value |-> None, kl_p_cvsc |-> NoSurvival, auc |-> None,
     response_angle |-> None, tgi |-> cur_case.tgi]

\* lines 39-53: the entry as created, before the try
initial_entry(cur_case) ==
    [drug |-> cur_case.category, mRECIST |-> None, perc_mPD |-> None, kl |-> None,
     kl_p_value |-> None, kl_p_cvsc |-> NoSurvival, auc |-> None,
     response_angle |-> None, tgi |-> cur_case.tgi]

\* lines 72-110: the entry of a case whose mRECIST calculation succeeded
filled_entry(cur_case) ==
    [drug |-> cur_case.category, mRECIST |-> Text, perc_mPD |-> Fin(1, 2),
     kl |-> cur_case.kl_divergence, kl_p_value |-> cur_case.kl_p_value,
     kl_p_cvsc |-> cur_case.kl_p_cvsc, auc |-> Text, response_angle |-> Text,
     tgi |-> cur_case.tgi]

InitCmd ==
    /\ \E l \in NullFiles :
          /\ persisted = l
          /\ filename = [given |-> TRUE, rows |-> persist_null_values(l)]
    /\ \E kinds \in SeqsUpTo(CaseKinds, MaxCmdCases) : \E cut \in 0..Len(kinds) :
          all_patients = <<new_patient("P1", SubSeq(kinds, 1, cut)),
                           new_patient("P2", SubSeq(kinds, cut + 1, Len(kinds)))>>
    /\ treatment_condition_list = [given |-> FALSE, val |-> <<>>]
    /\ pc = "create_measurement_dict"
    /\ i = 0
    /\ j = 0
    /\ kl_list = <<>>
    /\ evals = <<>>
    /\ null_kl_data = <<>>
    /\ result = NoResult
    /\ error = "none"
    /\ file_reads = 0
    /\ fits = 0
    /\ cur_kl = None
    /\ kl_p_value = None
    /\ kl_p_cvsc = NoSurvival
    /\ l1 = <<>>
    /\ l2 = <<>>
    /\ pval_list = <<>>
    /\ cmd_patient = 0
    /\ cmd_category = 0
    /\ stats_dict = <<>>
    /\ printed = <<>>
    /\ KlIdle /\ ParIdle /\ ClsIdle /\ DictIdle /\ NasIdle /\ AgreeIdle /\ TcIdle

\* line 29: kl_control_vs_control = calculate_null_kl(filename=kl_null_filename)
cmd_calculate_null_kl ==
    /\ pc = "create_measurement_dict"
    /\ file_reads' = file_reads + 1
    /\ LET data == read_csv(filename.rows)
           smoothed_null_kl == cv_smoothing(data)
       IN  IF data = <<Raise>>
           THEN pc' = "raised" /\ error' = "EmptyDataError"
                /\ UNCHANGED <<null_kl_data, result, fits>>
           ELSE IF smoothed_null_kl.k = "raise"
           THEN pc' = "raised" /\ error' = "ValueError_fit" /\ null_kl_data' = data
                /\ fits' = fits + 1 /\ UNCHANGED result
           ELSE /\ pc' = "cmd_loop"
                /\ null_kl_data' = data
                /\ fits' = fits + 1
                /\ result' = [ready |-> TRUE, list |-> data, smoothed |-> smoothed_null_kl]
                /\ UNCHANGED error
    /\ UNCHANGED <<treatment_condition_list, filename, persisted, i, j, kl_list, evals,
                   cur_kl, kl_p_value, l1, l2, pval_list, kl_p_cvsc>>
    /\ UNCHANGED <<kl_vars, par_vars, cls_vars, dict_vars, nas_vars,
                   cmd_vars, agree_vars, tc_vars>>

cmd_categories == At(all_patients, cmd_patient).categories

\* lines 35-110: one pass of the loop over the categories of a patient
cmd_category_step ==
    /\ pc = "cmd_loop"
    /\ cmd_patient < Len(all_patients)
    /\ cmd_category < Len(cmd_categories)
    /\ cmd_category' = cmd_category + 1
    /\ LET patient == At(all_patients, cmd_patient)
           cur_case == At(cmd_categories, cmd_category)
           key == <<patient.phlc_id, cur_case.category>>
           calibrated ==
               IF cur_case.kl_divergence.k # "none"
               THEN [cur_case EXCEPT
                        !.kl_p_value = kl_p_value_inline(result.list, cur_case.kl_divergence),
                        !.kl_p_cvsc = kl_p_cvsc_inline(result.smoothed,
                                                       cur_case.kl_divergence)]
               ELSE cur_case
       IN  IF ~is_treated(cur_case.category)
           THEN UNCHANGED <<all_patients, stats_dict, printed>>
           ELSE IF cur_case.raises
           THEN /\ stats_dict' = (key :> initial_entry(cur_case)) @@ stats_dict
                /\ printed' = Append(printed, key)
                /\ UNCHANGED all_patients
           ELSE /\ all_patients' =
                      [all_patients EXCEPT
                          ![cmd_patient + 1].categories[cmd_category + 1] = calibrated]
                /\ stats_dict' = (key :> filled_entry(calibrated)) @@ stats_dict
                /\ UNCHANGED printed
    /\ UNCHANGED <<main_vars, cmd_patient>>
    /\ UNCHANGED <<kl_vars, par_vars, cls_vars, dict_vars, nas_vars, agree_vars, tc_vars>>

\* the categories of a patient are exhausted: next patient
cmd_next_patient ==
    /\ pc = "cmd_loop"
    /\ cmd_patient < Len(all_patients)
    /\ cmd_category >= Len(cmd_categories)
    /\ cmd_patient' = cmd_patient + 1
    /\ cmd_category' = 0
    /\ UNCHANGED <<main_vars, all_patients, stats_dict, printed>>
    /\ UNCHANGED <<kl_vars, par_vars, cls_vars, dict_vars, nas_vars, agree_vars, tc_vars>>

\* line 111: return stats_dict
cmd_return ==
    /\ pc = "cmd_loop"
    /\ cmd_patient >= Len(all_patients)
    /\ pc' = "cmd_returned"
    /\ UNCHANGED <<main_vars_but_pc, cmd_vars>>
    /\ UNCHANGED <<kl_vars, par_vars, cls_vars, dict_vars, nas_vars, agree_vars, tc_vars>>

NextCmd ==
    \/ cmd_calculate_null_kl
    \/ cmd_category_step
    \/ cmd_next_patient
    \/ cmd_return

SpecCmd == InitCmd /\ [][NextCmd]_vars

(***************************************************************************)
(* The four implementations of the empirical p-value, called on the same   *)
(* observed values l1 and null list l2.                                    *)
(***************************************************************************)
\* aux_functions.p_value: the list l, one value appended per y of l1
aux_p_value(list1, list2) ==
    [e \in 1..Len(list1) |->
        LET at_least(x) == Geq(x, list1[e])
        IN  Fin(Len(SelectSeq(list2, at_least)) + 1, Len(list2) + 1)]

\* plotting.p_value(y, l2): one value
plotting_p_value(obs, list2) ==
    LET selected == {m \in 1..Len(list2) : Geq(list2[m], obs)}
    IN  Fin(Cardinality(selected) + 1, Len(list2) + 1)

InitAgree ==
    /\ treatment_condition_list = [given |-> FALSE, val |-> <<>>]
    /\ filename = [given |-> FALSE, rows |-> <<>>]
    /\ persisted = <<>>
    /\ pc = "agree_helpers"
    /\ i = 0
    /\ j = 0
    /\ kl_list = <<>>
    /\ evals = <<>>
    /\ null_kl_data = <<>>
    /\ result = NoResult
    /\ error = "none"
    /\ file_reads = 0
    /\ fits = 0
    /\ cur_kl = None
    /\ kl_p_value = None
    /\ kl_p_cvsc = NoSurvival
    /\ l1 \in SeqsUpTo(ObsVals, MaxObs)
    /\ l2 \in SeqsUpTo(FileVals, MaxRows)
    /\ pval_list = <<>>
    /\ KlIdle /\ ParIdle /\ ClsIdle /\ DictIdle /\ NasIdle /\ LateIdle

\* helpers.p_value(l1, l2)
agree_helpers_p_value ==
    /\ pc = "agree_helpers"
    /\ pc' = "agree_aux"
    /\ pval_list' = p_value(l1, l2)
    /\ UNCHANGED <<treatment_condition_list, filename, persisted, i, j, kl_list, evals,
                   null_kl_data, result, error, file_reads, fits, cur_kl, kl_p_value,
                   l1, l2, kl_p_cvsc, aux_vars>>

\* aux_functions.p_value(l1, l2)
agree_aux_p_value ==
    /\ pc = "agree_aux"
    /\ pc' = "agree_plotting"
    /\ aux_pval_list' = aux_p_value(l1, l2)
    /\ UNCHANGED <<main_vars_but_pc, plotting_pvals, cmd_pvals>>
    /\ UNCHANGED <<kl_vars, par_vars, cls_vars, dict_vars, nas_vars, cmd_vars, tc_vars>>

\* plotting.p_value(l1[k], l2) for each k
agree_plotting_p_value ==
    /\ pc = "agree_plotting"
    /\ pc' = "agree_inline"
    /\ plotting_pvals' = [k \in 1..Len(l1) |-> plotting_p_value(l1[k], l2)]
    /\ UNCHANGED <<main_vars_but_pc, aux_pval_list, cmd_pvals>>
    /\ UNCHANGED <<kl_vars, par_vars, cls_vars, dict_vars, nas_vars, cmd_vars, tc_vars>>

\* create_measurement_dict, lines 64-67, for a case with kl_divergence l1[k]
\* and kl_control_vs_control["list"] = l2, for each k
agree_inline_p_value ==
    /\ pc = "agree_inline"
    /\ pc' = "agree_done"
    /\ cmd_pvals' = [k \in 1..Len(l1) |->
                        IF l1[k].k # "none" THEN kl_p_value_inline(l2, l1[k]) ELSE None]
    /\ UNCHANGED <<main_vars_but_pc, aux_pval_list, plotting_pvals>>
    /\ UNCHANGED <<kl_vars, par_vars, cls_vars, dict_vars, nas_vars, cmd_vars, tc_vars>>

NextAgree ==
    \/ agree_helpers_p_value
    \/ agree_aux_p_value
    \/ agree_plotting_p_value
    \/ agree_inline_p_value

SpecAgree == InitAgree /\ [][NextAgree]_vars

(***************************************************************************)
(* get_all_treatment_conditions (helpers.py) and get_all_cats              *)
(* (aux_functions.py).  Names are strings, sequences of characters; a      *)
(* treatment condition object is identified by its cancer model and its    *)
(* name.  Every cancer model has a Control.  A dictionary is the set of    *)
(* its <<key, value>> items.                                               *)
(***************************************************************************)
MaxModels == 2

ControlName == <<"Control">>
ModelNames == {<<"a">>, <<"a", "-", "b">>, <<"a", "*", "b">>}
ConditionOrder == <<ControlName, <<"c">>, <<"b", "-", "c">>, <<"b", "*", "c">>>>

condition_object(model_name, condition_name) ==
    [model |-> model_name, name |-> condition_name]

\* a cancer model with a Control and the given treated conditions
CancerModels ==
    {[name |-> nm,
      treatment_conditions |->
          LET present(cn) == cn = ControlName \/ cn \in treated
          IN  SelectSeq(ConditionOrder, present)] :
        nm \in ModelNames, treated \in SUBSET {ConditionOrder[k] : k \in 2..Len(ConditionOrder)}}

RECURSIVE items_of(_, _)
\* the assignments of the two loops, in order: one <<key, value>> per
\* condition whose name is not "Control", the key built with the separator
items_of(models, sep) ==
    IF models = <<>> THEN <<>>
    ELSE LET cancer_model == Head(models)
             names == cancer_model.treatment_conditions
             control == condition_object(cancer_model.name, ControlName)
             treated(cn) == cn # ControlName
             kept == SelectSeq(names, treated)
         IN  [k \in 1..Len(kept) |->
                 <<cancer_model.name \o <<sep>> \o kept[k],
                   [case |-> condition_object(cancer_model.name, kept[k]),
                    control |-> control]>>]
             \o items_of(Tail(models), sep)

\* helpers.py:29-35: keys str(cancer_model.name) + "-" + str(condition_name)
get_all_treatment_conditions(models) == mapping(items_of(models, "-"))

\* aux_functions.py:24-31: keys str(patient.name) + "*" + str(cat); the outer
\* loop repeats the same assignments once per patient
get_all_cats(models) ==
    LET RECURSIVE repeated(_)
        repeated(n) == IF n = 0 THEN <<>> ELSE items_of(models, "*") \o repeated(n - 1)
    IN  mapping(repeated(Len(models)))

InitTc ==
    /\ MainIdle
    /\ pc = "get_all_treatment_conditions"
    /\ experiment \in {e \in SeqsUpTo(CancerModels, MaxModels) :
                           \A a \in 1..Len(e) : \A b \in 1..Len(e) :
                               a # b => e[a].name # e[b].name}
    /\ treatment_condition_dict = {}
    /\ all_cats_dict = {}
    /\ KlIdle /\ ParIdle /\ ClsIdle /\ DictIdle /\ NasIdle /\ CmdIdle /\ AgreeIdle

get_all_treatment_conditions_call ==
    /\ pc = "get_all_treatment_conditions"
    /\ pc' = "get_all_cats"
    /\ treatment_condition_dict' = get_all_treatment_conditions(experiment)
    /\ UNCHANGED <<main_vars_but_pc, experiment, all_cats_dict>>
    /\ UNCHANGED <<kl_vars, par_vars, cls_vars, dict_vars, nas_vars, cmd_vars, agree_vars>>

get_all_cats_call ==
    /\ pc = "get_all_cats"
    /\ pc' = "tc_returned"
    /\ all_cats_dict' = get_all_cats(experiment)
    /\ UNCHANGED <<main_vars_but_pc, experiment, treatment_condition_dict>>
    /\ UNCHANGED <<kl_vars, par_vars, cls_vars, dict_vars, nas_vars, cmd_vars, agree_vars>>

NextTc ==
    \/ get_all_treatment_conditions_call
    \/ get_all_cats_call

SpecTc == InitTc /\ [][NextTc]_vars

(***************************************************************************)
(* Properties                                                              *)
(***************************************************************************)
ListMode == treatment_condition_list.given /\ ~filename.given
FileMode == filename.given /\ ~treatment_condition_list.given

\* cross_kl_divergences has returned its list to calculate_null_kl
CrossReturned ==
    /\ ListMode
    /\ \/ pc \in {"smooth", "done"}
       \/ pc = "raised" /\ error = "ValueError_fit"

NPairs(n) == (n * (n - 1)) \div 2

Degenerate(v) == v.k \in {"none", "nan", "inf", "ninf"}

EvalIdx == 1..Len(evals)

NoNaNInf(list) == \A e \in 1..Len(list) : ~IsNaN(list[e]) /\ ~IsInf(list[e])

\* C1: for a list of n conditions, whatever the pairwise divergences evaluate
\* to, the list built (and returned) by cross_kl_divergences has at most
\* n*(n-1)/2 values and none of them is NaN or infinite.
C1_AtMostPairsNoNaNInf ==
    ListMode =>
        /\ Len(kl_list) <= NPairs(cl)
        /\ NoNaNInf(kl_list)
        /\ (CrossReturned => null_kl_data = kl_list)

\* C1 witness: a returned list after both a NaN and an infinite divergence
\* were evaluated and some value was retained.
C1_Witness ==
    /\ CrossReturned
    /\ \E e \in EvalIdx : IsNaN(evals[e].value)
    /\ \E e \in EvalIdx : IsInf(evals[e].value)
    /\ Len(null_kl_data) > 0

EvaluatedOnce(a, b) ==
    Cardinality({e \in EvalIdx : {evals[e].case, evals[e].control} = {a, b}}) = 1

EveryPairOnce ==
    /\ Len(evals) = NPairs(cl)
    /\ \A a \in 0..(cl - 1) : \A b \in 0..(cl - 1) : a < b => EvaluatedOnce(a, b)

LastEval == evals[Len(evals)]

\* C2 as stated: every unordered pair is evaluated exactly once and the call
\* for a pair passes the lower-indexed condition as case and the
\* higher-indexed one as control (the call just made is in each state the
\* last entry of evals).
C2_LowerIndexIsCase ==
    /\ CrossReturned => EveryPairOnce
    /\ \A e \in EvalIdx : evals[e].case < evals[e].control
    /\ Len(evals) > 0 =>
          LastEval.value \in
              kl_divergence(At(treatment_condition_list.val,
                               Min(LastEval.case, LastEval.control)),
                            At(treatment_condition_list.val,
                               LastEval.case + LastEval.control
                                   - Min(LastEval.case, LastEval.control)))

\* C2 amended: every call is kl_divergence(conditions[i], conditions[j]) with
\* j < i, the higher-indexed condition as case and the lower-indexed one as
\* control; when cross_kl_divergences returns, every unordered pair has been
\* evaluated exactly once.
C2_HigherIndexIsCase ==
    /\ CrossReturned => EveryPairOnce
    /\ \A e \in EvalIdx : evals[e].control < evals[e].case /\ evals[e].case < cl
    /\ Len(evals) > 0 =>
          LastEval.value \in
              kl_divergence(At(treatment_condition_list.val, LastEval.case),
                            At(treatment_condition_list.val, LastEval.control))

\* C2 witness: a returned call on three or more conditions in which the
\* direction of a call shows in its value (swapping its arguments would have
\* given another value).
C2_Witness ==
    /\ CrossReturned
    /\ cl >= 3
    /\ \E e \in EvalIdx :
          evals[e].value \notin
              kl_divergence(At(treatment_condition_list.val, evals[e].control),
                            At(treatment_condition_list.val, evals[e].case))

\* C3 as stated: a pair whose evaluation fails never aborts
\* cross_kl_divergences / calculate_null_kl.
C3_PairFailureNeverAborts ==
    (\E e \in EvalIdx : evals[e].value.k = "raise") => pc # "raised"

IsFinEval(e) == IsFin(e.value)

FiniteEvalValues ==
    LET sel == SelectSeq(evals, IsFinEval)
    IN  [e \in 1..Len(sel) |-> sel[e].value]

\* C3 amended: a pair whose divergence evaluates to NaN or infinity is
\* discarded and the loop continues, so the returned list is exactly the
\* finite values of all pairs in evaluation order; a pair whose evaluation
\* raises ends cross_kl_divergences and calculate_null_kl with that
\* exception, at that pair, and nothing is returned.
C3_SentinelDiscardedRaisePropagates ==
    /\ CrossReturned =>
          /\ Len(evals) = NPairs(cl)
          /\ null_kl_data = FiniteEvalValues
    /\ \A e \in EvalIdx :
          evals[e].value.k = "raise" =>
              /\ e = Len(evals)
              /\ pc = "raised"
              /\ error = "AttributeError"
              /\ ~result.ready
              /\ null_kl_data = <<>>

\* C3 witness: a returned list where a degenerate pair was followed by a pair
\* whose finite value was retained.
C3_Witness ==
    /\ CrossReturned
    /\ \E a \in EvalIdx : \E b \in EvalIdx :
          /\ a < b
          /\ Degenerate(evals[a].value)
          /\ IsFin(evals[b].value)
          /\ evals[b].value # Fin(0, 1)
    /\ Len(null_kl_data) >= 2

ExactlyOneSource == treatment_condition_list.given # filename.given

\* C4: with both sources or neither, calculate_null_kl raises the ValueError
\* of the argument check at once: no divergence evaluated, no file read, no
\* density fitted, nothing returned; with exactly one source that error is
\* never raised.
C4_ExactlyOneSource ==
    /\ ~ExactlyOneSource =>
          /\ pc \in {"start", "raised"}
          /\ (pc = "raised" => error = "ValueError_args")
          /\ evals = <<>>
          /\ file_reads = 0
          /\ fits = 0
          /\ ~result.ready
          /\ null_kl_data = <<>>
    /\ ExactlyOneSource => error # "ValueError_args"

\* C4 witness: the argument error after a call with a condition list and a
\* file both given.
C4_Witness ==
    /\ treatment_condition_list.given
    /\ filename.given
    /\ Len(treatment_condition_list.val) > 0
    /\ Len(filename.rows) > 0
    /\ pc = "raised"
    /\ error = "ValueError_args"

PValueReturned == pc = "p_value_returned"

CountGeq(list, y) == Cardinality({m \in 1..Len(list) : Geq(list[m], y)})

\* C5: for every observed value y and every null list L the empirical
\* p-value is (number of x in L with x >= y, plus 1) / (length of L, plus 1).
C5_EmpiricalPValue ==
    PValueReturned =>
        /\ Len(pval_list) = Len(l1)
        /\ \A e \in 1..Len(l1) :
              /\ pval_list[e].k = "fin"
              /\ pval_list[e].n * (Len(l2) + 1) = (CountGeq(l2, l1[e]) + 1) * pval_list[e].d

\* C5 witness: a p-value for an observed value that ties with an element of a
\* null list which also holds smaller and larger elements.
C5_Witness ==
    /\ PValueReturned
    /\ \E e \in 1..Len(l1) :
          /\ \E m \in 1..Len(l2) : l2[m] = l1[e]
          /\ \E m \in 1..Len(l2) : Geq(l2[m], l1[e]) /\ l2[m] # l1[e]
          /\ \E m \in 1..Len(l2) : ~Geq(l2[m], l1[e])

\* p <= q on finite floats
RatLeq(p, q) == p.n * q.d <= q.n * p.d

\* C6: for a fixed null list the p-value is non-increasing in the observed
\* value, and for every observed value and every null list (the empty list
\* included) it lies in (0, 1].
C6_MonotoneInUnitInterval ==
    PValueReturned =>
        /\ \A a \in 1..Len(l1) : \A b \in 1..Len(l1) :
              Geq(l1[b], l1[a]) => RatLeq(pval_list[b], pval_list[a])
        /\ \A e \in 1..Len(l1) :
              /\ pval_list[e].n > 0
              /\ pval_list[e].n <= pval_list[e].d

\* C6 witness: two observed values against one null list, the larger one with
\* the strictly smaller p-value.
C6_Witness ==
    /\ PValueReturned
    /\ \E a \in 1..Len(l1) : \E b \in 1..Len(l1) :
          /\ Geq(l1[b], l1[a])
          /\ l1[a] # l1[b]
          /\ ~RatLeq(pval_list[a], pval_list[b])

\* C7 as stated: on every construction path the raw list of the returned
\* null distribution holds no NaN and no infinite value.
C7_NoDegenerateOnAnyPath ==
    result.ready => NoNaNInf(result.list)

FileHasDegenerateRow == \E r \in 1..Len(filename.rows) : filename.rows[r] \in {"nan", "inf"}

\* C7 amended: built from a condition list, the raw list of the returned null
\* distribution holds no NaN and no infinite value; built from a persisted
\* file, nothing is discarded: the raw list holds a NaN or infinite value
\* exactly when the file has such a row.
C7_DegenerateOnlyFromFile ==
    result.ready =>
        /\ ListMode => NoNaNInf(result.list)
        /\ FileMode => (NoNaNInf(result.list) <=> ~FileHasDegenerateRow)

\* C7 witness: a null distribution returned from a condition list with a
\* degenerate pair among the evaluated ones.
C7_Witness ==
    /\ result.ready
    /\ ListMode
    /\ \E e \in EvalIdx : IsNaN(evals[e].value)
    /\ \E e \in EvalIdx : IsInf(evals[e].value)

DistinctValues(list) == Cardinality({list[e] : e \in 1..Len(list)})

\* C9 as stated: whenever the raw list is empty or has fewer than 2 distinct
\* values calculate_null_kl fails and returns no null distribution.
C9_FewerThanTwoDistinctFails ==
    result.ready => DistinctValues(result.list) >= 2

\* C9 amended: calculate_null_kl fails with the ValueError of the density
\* constructor exactly when the raw list it obtained has fewer than 2 values
\* (0 or 1 entries), and then returns nothing; a list of 2 or more values is
\* fitted and returned, also when all its values are equal.
C9_FewerThanTwoValuesFails ==
    fits > 0 =>
        /\ Len(null_kl_data) <= 1 =>
              pc = "raised" /\ error = "ValueError_fit" /\ ~result.ready
        /\ Len(null_kl_data) >= 2 =>
              pc = "done" /\ result.ready /\ result.list = null_kl_data /\ error = "none"

\* C9 witness: the fit error for a cohort of three conditions whose every
\* pair is degenerate.
C9_Witness ==
    /\ ListMode
    /\ cl = 3
    /\ Len(evals) = 3
    /\ pc = "raised"
    /\ error = "ValueError_fit"
    /\ null_kl_data = <<>>

DegenerateEvals == Cardinality({e \in EvalIdx : Degenerate(evals[e].value)})
NaNEvals == Cardinality({e \in EvalIdx : IsNaN(evals[e].value)})

\* C10: the number of retained values is n*(n-1)/2 minus the number of pairs
\* whose divergence is None, NaN or infinite; 5 conditions give 10 candidate
\* values and, with exactly 2 of them NaN, 8 retained values.
C10_RetainedCount ==
    CrossReturned =>
        /\ Len(evals) = NPairs(cl)
        /\ Len(null_kl_data) = NPairs(cl) - DegenerateEvals
        /\ (cl = 5 => Len(evals) = 10)
        /\ (cl = 5 /\ NaNEvals = 2 /\ DegenerateEvals = 2 => Len(null_kl_data) = 8)

\* C10 witness: a cohort of 5 conditions, 10 evaluated pairs, exactly 2 of
\* them NaN, 8 values returned.
C10_Witness ==
    /\ CrossReturned
    /\ cl = 5
    /\ Len(evals) = 10
    /\ NaNEvals = 2
    /\ DegenerateEvals = 2
    /\ Len(null_kl_data) = 8


(***************************************************************************)
(* kl_divergence: window, identical models, symmetry, normalisation        *)
(***************************************************************************)
KlReturned == pc \in {"kl_returned", "kl_both_returned"}

MaxXIndex == Min(kl_case.measurement_end, kl_control.measurement_end)

\* C11 (as stated): the window starts at case.drug_start_day and ends at the
\* time point at index min(case.measurement_end, control.measurement_end) of
\* the axis of the longer series: the control's axis when the control has at
\* least as many columns as the case, the case's axis when the case has
\* strictly more.
C11_EndFromLongerSeries ==
    KlReturned =>
        /\ kl_window[1] = kl_case.drug_start_day
        /\ kl_window[2] = IF kl_control.ncols >= kl_case.ncols
                          THEN At(kl_control.x, MaxXIndex)
                          ELSE At(kl_case.x, MaxXIndex)

\* C11 (amended): the window starts at case.drug_start_day and ends at the
\* time point at index min(case.measurement_end, control.measurement_end) of
\* the case's axis when the control has strictly more columns than the case,
\* and of the control's axis otherwise (equal counts, or the case has more).
C11_EndFromCaseOnlyWhenControlLonger ==
    KlReturned =>
        /\ kl_window[1] = kl_case.drug_start_day
        /\ (kl_control.ncols > kl_case.ncols
                => kl_window[2] = At(kl_case.x, MaxXIndex))
        /\ (kl_control.ncols <= kl_case.ncols
                => kl_window[2] = At(kl_control.x, MaxXIndex))

\* a call whose two axes differ at the chosen index, the control being longer
C11_Witness ==
    /\ KlReturned
    /\ kl_control.ncols > kl_case.ncols
    /\ At(kl_case.x, MaxXIndex) # At(kl_control.x, MaxXIndex)
    /\ kl_window[2] = At(kl_case.x, MaxXIndex)

SameModel(a, b) ==
    /\ a.fitted /\ b.fitted
    /\ a.mean = b.mean
    /\ a.var = b.var
    /\ \A t \in Times : a.var[t] > 0

IntegrandZeroEverywhere ==
    \A t \in Times : kl_integrand(kl_case, kl_control, t) = FInt(0)

\* C12 (as stated): with identical predictive models (equal mean, equal
\* positive variance at every time point) the integrand is 0 at every time
\* point and the divergence is 0.
C12_IdenticalModelsZero ==
    (KlReturned /\ SameModel(kl_case, kl_control)) =>
        (IntegrandZeroEverywhere /\ kl_value = FInt(0))

\* C12 (amended): with identical predictive models the integrand is 0 at
\* every time point; the divergence is 0 when the window has non-zero length
\* and NaN when the window end equals case.drug_start_day.
C12_IdenticalModelsZeroOnNonEmptyWindow ==
    (KlReturned /\ SameModel(kl_case, kl_control)) =>
        /\ IntegrandZeroEverywhere
        /\ (kl_window[2] # kl_window[1] => kl_value = FInt(0))
        /\ (kl_window[2] = kl_window[1] => kl_value = NaN)

\* identical models with a mean that varies, on a window of non-zero length
C12_Witness ==
    /\ KlReturned
    /\ SameModel(kl_case, kl_control)
    /\ kl_case.mean[1] # kl_case.mean[0]
    /\ kl_window[2] # kl_window[1]
    /\ kl_value = FInt(0)


BothReturned == pc = "kl_both_returned"

\* equal variance functions and equal numbers of observations
EqualVarianceEqualObservations ==
    /\ kl_case.fitted /\ kl_control.fitted
    /\ kl_case.var = kl_control.var
    /\ kl_case.ncols = kl_control.ncols

\* the two calls agree: equal values, or both without a finite value
SwapAgrees ==
    IF IsFin(kl_value) THEN kl_swapped = kl_value ELSE ~IsFin(kl_swapped)

\* C13 (as stated): kl_divergence(A, B) = kl_divergence(B, A) whenever the
\* models have equal variance functions and A and B have equal numbers of
\* observations, also when their drug_start_day values differ.
C13_SymmetricUnderSwap ==
    (BothReturned /\ EqualVarianceEqualObservations) => SwapAgrees

\* C13 (amended): kl_divergence(A, B) = kl_divergence(B, A) whenever the
\* models have equal variance functions, A and B have equal numbers of
\* observations, the same drug_start_day, and the same time point at index
\* min(A.measurement_end, B.measurement_end).
C13_SymmetricOnSameWindow ==
    (/\ BothReturned
     /\ EqualVarianceEqualObservations
     /\ kl_case.drug_start_day = kl_control.drug_start_day
     /\ At(kl_case.x, MaxXIndex) = At(kl_control.x, MaxXIndex)) => SwapAgrees

\* two conditions with different means and axes, swapped, with a finite
\* positive divergence
C13_Witness ==
    /\ BothReturned
    /\ EqualVarianceEqualObservations
    /\ kl_case.drug_start_day = kl_control.drug_start_day
    /\ At(kl_case.x, MaxXIndex) = At(kl_control.x, MaxXIndex)
    /\ kl_case.x # kl_control.x
    /\ kl_case.mean # kl_control.mean
    /\ IsFin(kl_value) /\ kl_value # FInt(0)
    /\ kl_swapped = kl_value

\* C14: kl_divergence returns the absolute value of the integral over the
\* window divided by the window length (end time minus case.drug_start_day)
\* and by 11; every finite value it returns is non-negative, and so is every
\* value the null-list filter retains.
C14_NormalisedAbsoluteValue ==
    (KlReturned /\ kl_case.fitted /\ kl_control.fitted) =>
        /\ \E integral \in quad(kl_case, kl_control, kl_window[1], kl_window[2]) :
              kl_value = FAbs(FDiv(FDiv(integral, FInt(kl_window[2] - kl_window[1])),
                                   FInt(11)))
        /\ (IsFin(kl_value) => Geq(kl_value, FInt(0)))
        /\ (retained(kl_value) => (IsFin(kl_value) /\ Geq(kl_value, FInt(0))))

\* a reversed window (drug_start_day after the end point): the integral and
\* the window length are both negative and the value is positive
C14_Witness ==
    /\ KlReturned
    /\ kl_window[2] < kl_window[1]
    /\ IsFin(kl_value) /\ kl_value # FInt(0)
    /\ retained(kl_value)


(***************************************************************************)
(* Calibration queries against a built null distribution                   *)
(***************************************************************************)
\* C15: once the null distribution is built, every calibration query
\* (empirical p-value, density survival) leaves the raw list and the density
\* unchanged in content and order, and a query with the same observed value
\* as the previous one returns the same p-value and the same survival value.
C15_QueriesLeaveNullDistributionUnchanged ==
    [][(pc = "done" /\ pc' = "done") =>
          /\ result' = result
          /\ null_kl_data' = null_kl_data
          /\ (cur_kl' = cur_kl =>
                 (kl_p_value' = kl_p_value /\ kl_p_cvsc' = kl_p_cvsc))]_vars

\* a query has been answered against a list of at least two values, one of
\* them at least as large as the observed value
C15_Witness ==
    /\ pc = "done"
    /\ cur_kl # None
    /\ kl_p_cvsc.given
    /\ Len(result.list) >= 2
    /\ kl_p_value # None
    /\ kl_p_value.n >= 2


(***************************************************************************)
(* Order independence of the pairwise aggregation                          *)
(***************************************************************************)
\* the multiset of the values of a list
Multiset(seq) ==
    [v \in {seq[k] : k \in DOMAIN seq} |-> Cardinality({k \in DOMAIN seq : seq[k] = v})]

\* C16: whatever the order in which the workers evaluated the n*(n-1)/2
\* pairs into their slots, the multiset of values retained by the sequential
\* filter-and-collect pass equals the multiset returned by the sequential
\* cross_kl_divergences on the same list.
C16_RetainedMultisetOrderIndependent ==
    pc = "collected" => Multiset(collected) = Multiset(kl_list)

\* three pairs evaluated, the values collected in an order other than that
\* of the sequential loop, one pair discarded
C16_Witness ==
    /\ pc = "collected"
    /\ cl = 3
    /\ Len(collected) = 2
    /\ collected # kl_list
    /\ Multiset(collected) = Multiset(kl_list)


(***************************************************************************)
(* The smallest empirical p-value                                          *)
(***************************************************************************)
\* y > x on floats (false when either is NaN)
StrictlyGreater(a, b) == Geq(a, b) /\ ~Geq(b, a)

AboveAll(e) == \A m \in 1..Len(l2) : StrictlyGreater(l1[e], l2[m])

\* C17: when the observed value is strictly greater than every value of a
\* null list of length n its p-value is exactly 1/(n+1), and no observed
\* value gets a p-value below 1/(n+1) against a list of that length.
C17_MinimumPValue ==
    PValueReturned =>
        \A e \in 1..Len(l1) :
            /\ AboveAll(e) => pval_list[e] = Fin(1, Len(l2) + 1)
            /\ RatLeq(Fin(1, Len(l2) + 1), pval_list[e])

\* an observed value above all of a three-element null list, next to one
\* that is not
C17_Witness ==
    /\ PValueReturned
    /\ Len(l2) = 3
    /\ \E e \in 1..Len(l1) : AboveAll(e) /\ pval_list[e] = Fin(1, 4)
    /\ \E e \in 1..Len(l1) : ~AboveAll(e) /\ pval_list[e] # Fin(1, 4)


(***************************************************************************)
(* The responder calls                                                     *)
(***************************************************************************)
\* C18: the 'kulgap' value of a row is 1 iff its KuLGaP p-value is strictly
\* less than p_val_kl, -1 iff it is greater than or equal to p_val_kl, and 0
\* iff it is None; p_val plays no part in it.
C18_KulgapUsesPValKl ==
    pc = "classified" =>
        LET p == stats_row.kl_p_cvsc
        IN  /\ (responses.kulgap = 1) <=> (p.k # "none" /\ Less(p, p_val_kl))
            /\ (responses.kulgap = -1) <=> (p.k # "none" /\ Geq(p, p_val_kl))
            /\ (responses.kulgap = 0) <=> (p.k = "none")


(***************************************************************************)
(* Dictionaries written to and read back from strings                      *)
(***************************************************************************)
\* C19: for every dictionary d with string keys and float values,
\* dict_from_string(dict_to_string(d)) returns a dictionary equal to d.
C19_FromStringInvertsToString ==
    pc \in {"raised", "dict_returned"} =>
        (dict_back.k = "dict" /\ dict_back.val = mapping(dictionary))


(***************************************************************************)
(* The measurement window of remove_extremal_nas                           *)
(***************************************************************************)
\* C20: for every array in which each row has at least one non-NaN entry,
\* remove_extremal_nas returns first <= last, where first is the largest,
\* over rows, of the index of the row's first non-NaN entry and last the
\* smallest, over rows, of the index of the row's last non-NaN entry.
C20_WindowNeverInverted ==
    pc = "nas_returned" =>
        LET given == nas_out.given
            rows == 1..Len(given)
        IN  /\ nas_out.first = max_of({min_of(ind(given[r])) : r \in rows})
            /\ nas_out.last = min_of({max_of(ind(given[r])) : r \in rows})
            /\ nas_out.first <= nas_out.last


(***************************************************************************)
(* create_measurement_dict: a case whose mRECIST calculation raises        *)
(***************************************************************************)
\* the loop has passed category c (1-based) of patient p (1-based)
Processed(p, c) ==
    \/ pc = "cmd_returned"
    \/ /\ pc = "cmd_loop"
       /\ \/ p - 1 < cmd_patient
          \/ p - 1 = cmd_patient /\ c - 1 < cmd_category

CaseAt(p, c) == all_patients[p].categories[c]
KeyAt(p, c) == <<all_patients[p].phlc_id, CaseAt(p, c).category>>

TreatedPositions ==
    {pos \in (1..Len(all_patients)) \X (1..(MaxCmdCases + 2)) :
        /\ pos[2] <= Len(all_patients[pos[1]].categories)
        /\ is_treated(CaseAt(pos[1], pos[2]).category)}

C22_FourImplementationsAgree ==
    pc = "agree_done" =>
        /\ Len(pval_list) = Len(l1)
        /\ Len(aux_pval_list) = Len(l1)
        /\ \A k \in 1..Len(l1) :
              /\ pval_list[k] = aux_pval_list[k]
              /\ pval_list[k] = plotting_pvals[k]
              /\ pval_list[k] = cmd_pvals[k]

\* two observed values with different p-values against a null list holding
\* a tie, a NaN and a larger value
C22_Witness ==
    /\ pc = "agree_done"
    /\ Len(l1) = 2
    /\ \E m \in 1..Len(l2) : l2[m] = l1[1]
    /\ \E m \in 1..Len(l2) : IsNaN(l2[m])
    /\ \E m \in 1..Len(l2) : Geq(l2[m], l1[1]) /\ l2[m] # l1[1]
    /\ pval_list[1] # pval_list[2]
    /\ cmd_pvals = pval_list


(***************************************************************************)
(* The dictionary of case/control pairs                                    *)
(***************************************************************************)
\* the positions of the (cancer model, non-Control condition) pairs
TreatedPairs ==
    {pos \in (1..Len(experiment)) \X (1..Len(ConditionOrder)) :
        /\ pos[2] <= Len(experiment[pos[1]].treatment_conditions)
        /\ experiment[pos[1]].treatment_conditions[pos[2]] # ControlName}

OneEntryPerPair(dict) ==
    /\ Cardinality(dict) = Cardinality(TreatedPairs)
    /\ \A item \in dict : item[2].case.name # ControlName
    /\ \A pos \in TreatedPairs :
          LET cancer_model == experiment[pos[1]]
              condition == cancer_model.treatment_conditions[pos[2]]
          IN  \E item \in dict :
                  /\ item[2].case = condition_object(cancer_model.name, condition)
                  /\ item[2].control = condition_object(cancer_model.name, ControlName)

\* C23: get_all_treatment_conditions (and get_all_cats) returns a dictionary
\* with exactly one entry per (cancer model, non-Control condition) pair: no
\* two distinct pairs share a key, no entry is made for a Control, and each
\* entry's case is that condition and its control the Control of the same
\* cancer model.
C23_OneEntryPerPair ==
    /\ pc \in {"get_all_cats", "tc_returned"} => OneEntryPerPair(treatment_condition_dict)
    /\ pc = "tc_returned" => OneEntryPerPair(all_cats_dict)

====
